---------------------------- MODULE Spec2Model ----------------------------
(***************************************************************************)
(* A model of scrape.js, the pipeline that collects document URLs from     *)
(* several web sources, drops the ones documents.json already records,     *)
(* uploads the rest to DocumentCloud in chunks of DOCS_PER_REQUEST and     *)
(* writes documents.json back.                                             *)
(*                                                                         *)
(* A URL is a sequence of string tokens <<host, directory, name, ...>>;    *)
(* the token " " is a literal space and "%20" its percent-encoding.  The   *)
(* string functions the code applies to URLs (replaceAll, replace) are     *)
(* computed token by token.                                                *)
(*                                                                         *)
(* start() is cut into one action per await: each action is the code that  *)
(* runs from one suspension point to the next.                             *)
(***************************************************************************)
EXTENDS Integers, Sequences, FiniteSets, TLC

VARIABLES
    DRY_RUN,            \* scrape.js:45
    web,                \* what the scraped sources serve
    file,               \* the content of documents.json
    cloud,              \* the documents DocumentCloud has created
    pc,                 \* where start() is suspended
    exitCode,           \* process.exitCode (0: never set)
    authToken,          \* start(): authToken
    url,                \* checkDocuments(): url, as a page number (0: null)
    badDocCount,        \* checkDocuments(): badDocCount
    failedDocs,         \* start(): failedDocs
    existingDocs,       \* start(): existingDocs
    existingDocsSet,    \* start(): existingDocsSet
    profileDocs,        \* start(): profileDocs
    apuDocs,            \* start(): apuDocs
    apuLinkedDocs,      \* start(): apuLinkedDocs
    ccrbAnnualReports,  \* start(): ccrbAnnualReports
    departureLetters,   \* start(): departureLetters
    trialDecisions,     \* start(): trialDecisions
    ccrbClosingReports, \* start(): ccrbClosingReports
    newDocuments,       \* processDocs(): newDocuments, uploadDocs(): docs
    i,                  \* uploadDocs(): i
    addedDocs,          \* uploadDocs(): addedDocs
    requests,           \* history: the POST requests of this run
    lastEvent,          \* history: the last request or delay of this run
    prevRun,            \* history: how the previous run ended
    prevPending,        \* history: the new URLs the previous run did not upload
    pages,              \* history: the GET requests of checkDocuments
    thrownIn            \* history: where the exception that ended the run was thrown

vars == <<DRY_RUN, web, file, cloud, pc, exitCode, authToken, url, badDocCount,
          failedDocs, existingDocs, existingDocsSet, profileDocs, apuDocs,
          apuLinkedDocs, ccrbAnnualReports, departureLetters, trialDecisions,
          ccrbClosingReports, newDocuments, i, addedDocs, requests, lastEvent,
          prevRun, prevPending, pages, thrownIn>>

(***************************************************************************)
(* Bounds of the model.                                                    *)
(***************************************************************************)
\* The profile source serves 0..MaxBulk documents.
MaxBulk == 52
\* The DocumentCloud listing has at most MaxPages pages.
MaxPages == 2

(***************************************************************************)
(* Constants of the program.                                               *)
(***************************************************************************)
DOCS_PER_REQUEST == 25

NYC_GOV == "https://www1.nyc.gov"
NYC_GOV_ALIAS == "https://www.nyc.gov"
NYPD_ONLINE == "https://nypdonline.org"
OIP_NYPD_ONLINE == "https://oip.nypdonline.org"
CCRB_PDF_APU == "/assets/ccrb/downloads/pdf/APU-Documents/"
CCRB_PDF_CLOSING == "/assets/ccrb/downloads/pdf/closing-reports/"
CCRB_PDF_REPORTS == "/assets/ccrb/downloads/pdf/prosecution_pdf/apu_quarterly_reports/"
CCRB_PDF_ANNUAL == "/assets/ccrb/downloads/pdf/policy_pdf/annual_bi-annual/"
FILES == "/files/"

\* The directories that start with '/assets/ccrb/downloads/pdf/'.
CcrbPdfDirs == {CCRB_PDF_APU, CCRB_PDF_CLOSING, CCRB_PDF_REPORTS, CCRB_PDF_ANNUAL}

EXTRA_DOCS ==
    << <<NYC_GOV, CCRB_PDF_APU, "201910097-Tax957907-APU-Final-Documents.pdf">>,
       <<NYC_GOV, CCRB_PDF_APU, "202002792-Tax961613-APU-Final-Documents.pdf">>,
       <<NYC_GOV, CCRB_PDF_APU, "202306511-Tax968628-APU-Final-Documents.pdf">>,
       <<NYC_GOV, CCRB_PDF_APU, "202304412-Tax967059-APU-Final-Documents.pdf">>,
       <<NYC_GOV, CCRB_PDF_APU, "202304127-Tax963837-APU-Final-Documents.pdf">> >>

DOCS_TO_SKIP ==
    { <<NYC_GOV, CCRB_PDF_APU, "202306511-Tax968628", "%20", "-APU-Final-Documents.pdf">>,
      <<NYC_GOV, CCRB_PDF_APU, "202304412-Tax963837-APU-Final-Documents.pdf">>,
      <<NYC_GOV, CCRB_PDF_APU, "2202304127-Tax963837-APU-Final-Documents.pdf">> }

\* The expected minimum counts handed to checkDocCount.
EXPECTED_PROFILE == 800
EXPECTED_APU == 25
EXPECTED_APU_LINKED == 0
EXPECTED_CCRB_ANNUAL == 50
EXPECTED_DEPARTURE == 225
EXPECTED_TRIAL == 1650
EXPECTED_CLOSING == 3150

\* process.exitCode values.
EXIT_UNPROCESSED == 58
EXIT_DOC_COUNT == 59
EXIT_UPLOAD_ERROR == 60
EXIT_LENGTH_MISMATCH == 61
EXIT_CHECK_ERROR == 62
\* The exit code of a Node process that ends on an unhandled rejection.
EXIT_UNCAUGHT == 1

\* JavaScript's undefined where a URL is expected: equal to no URL.
Undefined == <<"undefined">>
DRY_RUN_PLACEHOLDER == <<"DRY_RUN_PLACEHOLDER">>

(***************************************************************************)
(* Pure functions of the program.                                          *)
(***************************************************************************)
Min(a, b) == IF a < b THEN a ELSE b

\* url.replaceAll(' ', '%20')
ReplaceAllSpaces(u) == [k \in 1..Len(u) |-> IF u[k] = " " THEN "%20" ELSE u[k]]

\* url.replace('https://www.nyc.gov/assets/ccrb/downloads/pdf/',
\*             'https://www1.nyc.gov/assets/ccrb/downloads/pdf/')
NormalizeHost(u) ==
    IF Len(u) >= 2 /\ u[1] = NYC_GOV_ALIAS /\ u[2] \in CcrbPdfDirs
    THEN [u EXCEPT ![1] = NYC_GOV]
    ELSE u

\* [...new Set(seq)]: the first occurrence of each element, in order.
RECURSIVE SetOrder(_, _)
SetOrder(seq, acc) ==
    IF seq = <<>> THEN acc
    ELSE IF \E k \in 1..Len(acc) : acc[k] = Head(seq)
         THEN SetOrder(Tail(seq), acc)
         ELSE SetOrder(Tail(seq), Append(acc, Head(seq)))

RECURSIVE Concat(_)
Concat(seqs) == IF seqs = <<>> THEN <<>> ELSE Head(seqs) \o Concat(Tail(seqs))

Range(seq) == {seq[k] : k \in 1..Len(seq)}

\* e.alternate_urls: undefined for a record without the field, and flatMap
\* keeps an undefined as one element.
AlternateUrls(e) ==
    IF "alternate_urls" \in DOMAIN e THEN e.alternate_urls ELSE <<Undefined>>

getExistingDocsSetNoAlternates(docs) ==
    {docs.documents[k].source_url : k \in 1..Len(docs.documents)}

getExistingDocsSet(docs) ==
    {docs.documents[k].source_url : k \in 1..Len(docs.documents)}
        \cup UNION {Range(AlternateUrls(docs.documents[k])) : k \in 1..Len(docs.documents)}

\* The title is the text after the last '/': the tokens after the directory.
createDocument(sourceUrl) ==
    [access |-> "public",
     file_url |-> sourceUrl,
     source |-> sourceUrl,
     title |-> SubSeq(sourceUrl, 3, Len(sourceUrl))]

\* checkDocCount, as the exit code it leaves.
checkDocCountNoSignal(expected, docs, code) == code

checkDocCount(expected, docs, code) ==
    IF Len(docs) < expected THEN EXIT_DOC_COUNT ELSE code

\* processDocs: the test of one URL, and what the known set becomes.
IsNewIgnoringSkipList(u, known) == u \notin known

IsNew(u, known) == u \notin known /\ u \notin DOCS_TO_SKIP

RememberNothing(known, u) == known

Remember(known, u) == known \cup {u}

\* The for loop of processDocs: one URL is one turn; a longer list is its
\* first half, then its second half from where the first half ended.
RECURSIVE processDocsLoop(_, _, _)
processDocsLoop(docUrls, known, acc) ==
    IF docUrls = <<>>
    THEN [newDocuments |-> acc, existingDocs |-> known]
    ELSE IF Len(docUrls) = 1
    THEN LET u == Head(docUrls) IN
         IF IsNew(u, known)
         THEN [newDocuments |-> Append(acc, createDocument(u)),
               existingDocs |-> Remember(known, u)]
         ELSE [newDocuments |-> acc, existingDocs |-> known]
    ELSE LET half == Len(docUrls) \div 2
             rest == SubSeq(docUrls, half + 1, Len(docUrls))
             first == processDocsLoop(SubSeq(docUrls, 1, half), known, acc)
         IN  \* the test has the first half evaluated before the second starts
             IF first.newDocuments = acc /\ first.existingDocs = known
             THEN processDocsLoop(rest, known, acc)
             ELSE processDocsLoop(rest, first.existingDocs, first.newDocuments)

\* start(): allDocs.
Canonical(rawUrls) == [k \in 1..Len(rawUrls) |-> ReplaceAllSpaces(rawUrls[k])]

\* Math.ceil(docs.length / DOCS_PER_REQUEST)
NumChunks(docs) ==
    IF Len(docs) % DOCS_PER_REQUEST = 0
    THEN Len(docs) \div DOCS_PER_REQUEST
    ELSE Len(docs) \div DOCS_PER_REQUEST + 1

\* docs.slice(from, to), both 0-based, to exclusive.
Slice(docs, from, to) == SubSeq(docs, from + 1, Min(to, Len(docs)))

ChunkOffByOne(docs, n) == Slice(docs, n * DOCS_PER_REQUEST, (n + 1) * DOCS_PER_REQUEST - 1)

Chunk(docs, n) == Slice(docs, n * DOCS_PER_REQUEST, (n + 1) * DOCS_PER_REQUEST)

\* The records uploadDocs pushes for one chunk.
AddedFirstItemOnly(requestDocs, data) ==
    [k \in 1..Len(requestDocs) |->
        [source_url |-> requestDocs[k].file_url,
         permanent_url |-> data[1].canonical_url]]

AddedInReverse(requestDocs, data) ==
    [k \in 1..Len(requestDocs) |->
        [source_url |-> requestDocs[Len(requestDocs) + 1 - k].file_url,
         permanent_url |-> IF DRY_RUN
                           THEN DRY_RUN_PLACEHOLDER
                           ELSE data[k].canonical_url]]

Added(requestDocs, data) ==
    [k \in 1..Len(requestDocs) |->
        [source_url |-> requestDocs[k].file_url,
         \* data === null exactly when DRY_RUN
         permanent_url |-> IF DRY_RUN
                           THEN DRY_RUN_PLACEHOLDER
                           ELSE data[k].canonical_url]]

(***************************************************************************)
(* The environment: DocumentCloud and the scraped sources.                 *)
(***************************************************************************)
DOCUMENT_CLOUD == "https://www.documentcloud.org/documents/"

\* The descriptor DocumentCloud returns for a created document.
Created(doc) ==
    [canonical_url |-> <<DOCUMENT_CLOUD>> \o doc.file_url, status |-> "pending",
     file_url |-> doc.file_url]

Descriptors(requestDocs) == [k \in 1..Len(requestDocs) |-> Created(requestDocs[k])]

\* The lengths of a response that does not match a request of len documents.
MismatchLengths(len) == {m \in {0, len - 1} : m >= 0 /\ m # len}

\* The pages of the listing: the statuses of the documents on one page.
PageResults == { <<>>, <<"success", "success">>, <<"success", "error">> }

ProfileUrl(n) == <<NYPD_ONLINE, FILES, "doc" \o ToString(n) \o ".pdf">>
OldProfileUrl(n) == <<OIP_NYPD_ONLINE, FILES, "doc" \o ToString(n) \o ".pdf">>
Bulk(n) == [k \in 1..n |-> ProfileUrl(k)]

ApuReport == <<NYC_GOV, CCRB_PDF_REPORTS, "APUReport2024Q4.pdf">>
AnnualReport == <<NYC_GOV, CCRB_PDF_ANNUAL, "2023", " ", "Annual.pdf">>

\* The other sources: all empty, or serving the cases dedup has to handle.
Quiet ==
    [apuPage |-> <<>>, apuText |-> <<>>, annualPage |-> <<>>,
     departure |-> <<>>, trial |-> <<>>, closing |-> <<>>]

Busy ==
    [apuPage |-> <<ApuReport>>,
     \* the URLs in the text of each APU report
     apuText |-> [u \in {ApuReport} |->
        << <<NYC_GOV_ALIAS, CCRB_PDF_APU, "202304412-Tax963837-APU-Final-Documents.pdf">>,
           <<NYC_GOV_ALIAS, CCRB_PDF_APU, "202306511-Tax968628", " ", "-APU-Final-Documents.pdf">>,
           <<NYC_GOV_ALIAS, CCRB_PDF_APU, "201910097-Tax938534-APU-Final-Documents.pdf">>,
           <<NYC_GOV, CCRB_PDF_APU, "201910097-Tax938534-APU-Final-Documents.pdf">>,
           <<NYC_GOV_ALIAS, CCRB_PDF_APU, "201910097-Tax957907-APU-Final-Documents.pdf">> >>],
     annualPage |-> <<AnnualReport>>,
     departure |-> << <<NYC_GOV, CCRB_PDF_CLOSING, "letter", " ", "1.pdf">>,
                      <<NYC_GOV, CCRB_PDF_CLOSING, "letter", "%20", "1.pdf">>,
                      <<NYC_GOV, CCRB_PDF_APU, "2202304127-Tax963837-APU-Final-Documents.pdf">>,
                      \* a FileLink on www.nyc.gov
                      <<NYC_GOV_ALIAS, CCRB_PDF_APU, "201910097-Tax957907-APU-Final-Documents.pdf">> >>,
     trial |-> <<ProfileUrl(1), OldProfileUrl(1), ProfileUrl(2), ProfileUrl(1)>>,
     \* file names
     closing |-> << <<"report", " ", "7.pdf">>, <<"report8.pdf">> >>]

\* A list of n URLs, the same URL n times.
Repeat(u, n) == [k \in 1..n |-> u]

\* Every source serves as many URLs as checkDocCount expects of it.
Healthy ==
    [profile |-> Repeat(ProfileUrl(1), EXPECTED_PROFILE),
     apuPage |-> Repeat(ApuReport, EXPECTED_APU),
     apuText |-> [u \in {ApuReport} |-> <<>>],
     annualPage |-> Repeat(AnnualReport, EXPECTED_CCRB_ANNUAL),
     departure |-> Repeat(<<NYC_GOV, CCRB_PDF_CLOSING, "letter", " ", "1.pdf">>,
                          EXPECTED_DEPARTURE),
     trial |-> Repeat(ProfileUrl(2), EXPECTED_TRIAL),
     closing |-> Repeat(<<"report8.pdf">>, EXPECTED_CLOSING)]

Webs ==
    {[profile |-> Bulk(n)] @@ r : n \in 0..MaxBulk, r \in {Quiet, Busy}} \cup {Healthy}

\* documents.json before the first run.
LedgerRecord(sourceUrl) ==
    [source_url |-> sourceUrl, permanent_url |-> <<DOCUMENT_CLOUD>> \o sourceUrl]

Ledgers ==
    { [documents |-> <<>>],
      [documents |->
        << [source_url |-> OldProfileUrl(1),
            permanent_url |-> <<DOCUMENT_CLOUD>> \o OldProfileUrl(1),
            alternate_urls |-> <<ProfileUrl(1)>>],
           LedgerRecord(<<NYC_GOV, CCRB_PDF_CLOSING, "report", "%20", "7.pdf">>),
           LedgerRecord(EXTRA_DOCS[1]) >>] }

InCloud(ledger) ==
    {[file_url |-> ledger.documents[k].source_url,
      canonical_url |-> ledger.documents[k].permanent_url] : k \in 1..Len(ledger.documents)}

(***************************************************************************)
(* The initial state: no run has started.                                  *)
(***************************************************************************)
InitRun ==
    /\ web \in Webs
    /\ file \in Ledgers
    /\ cloud = InCloud(file)
    /\ pc = "idle"
    /\ exitCode = 0
    /\ authToken = "null"
    /\ url = 0
    /\ badDocCount = 0
    /\ failedDocs = 0
    /\ existingDocs = [documents |-> <<>>]
    /\ existingDocsSet = {}
    /\ profileDocs = <<>>
    /\ apuDocs = <<>>
    /\ apuLinkedDocs = <<>>
    /\ ccrbAnnualReports = <<>>
    /\ departureLetters = <<>>
    /\ trialDecisions = <<>>
    /\ ccrbClosingReports = <<>>
    /\ newDocuments = <<>>
    /\ i = 0
    /\ addedDocs = <<>>
    /\ requests = <<>>
    /\ lastEvent = "none"
    /\ prevRun = "none"
    /\ prevPending = {}
    /\ pages = <<>>
    /\ thrownIn = "none"

\* DRY_RUN as scrape.js has it.
Init == DRY_RUN = FALSE /\ InitRun

\* DRY_RUN as scrape.js has it, or set to true as line 44 invites.
InitDryRun == DRY_RUN \in BOOLEAN /\ InitRun

envVars == <<DRY_RUN, web>>
checkVars == <<url, badDocCount, failedDocs>>
ledgerVars == <<existingDocs, existingDocsSet>>
sourceVars == <<profileDocs, apuDocs, apuLinkedDocs, ccrbAnnualReports,
                departureLetters, trialDecisions, ccrbClosingReports>>
uploadVars == <<newDocuments, i, addedDocs>>

\* How a run that has ended went.
RunOutcome ==
    IF pc = "crashed" THEN "crashed"
    ELSE IF Len(addedDocs) = Len(newDocuments) THEN "complete"
    ELSE "aborted"

\* The new documents uploadDocs has not pushed a record for.
Pending ==
    {newDocuments[j].file_url : j \in (Len(addedDocs) + 1)..Len(newDocuments)}

\* An exception that nothing catches: start() rejects and the process ends.
Throw ==
    /\ pc' = "crashed"
    /\ exitCode' = EXIT_UNCAUGHT
    /\ thrownIn' = pc

(***************************************************************************)
(* start(), lines 48-51: a run begins (the workflow runs the script).      *)
(***************************************************************************)
\* start() without the test of DRY_RUN on line 50.
startAlwaysChecks ==
    /\ pc \in {"idle", "done", "crashed"}
    /\ prevRun' = IF pc = "idle" THEN "none" ELSE RunOutcome
    /\ prevPending' = Pending
    /\ pc' = "getAuthToken"
    /\ exitCode' = 0
    /\ authToken' = "null"
    /\ url' = 0
    /\ badDocCount' = 0
    /\ failedDocs' = 0
    /\ existingDocs' = [documents |-> <<>>]
    /\ existingDocsSet' = {}
    /\ profileDocs' = <<>>
    /\ apuDocs' = <<>>
    /\ apuLinkedDocs' = <<>>
    /\ ccrbAnnualReports' = <<>>
    /\ departureLetters' = <<>>
    /\ trialDecisions' = <<>>
    /\ ccrbClosingReports' = <<>>
    /\ newDocuments' = <<>>
    /\ i' = 0
    /\ addedDocs' = <<>>
    /\ requests' = <<>>
    /\ lastEvent' = "none"
    /\ pages' = <<>>
    /\ thrownIn' = "none"
    /\ UNCHANGED <<envVars, file, cloud>>

start ==
    /\ pc \in {"idle", "done", "crashed"}
    /\ prevRun' = IF pc = "idle" THEN "none" ELSE RunOutcome
    /\ prevPending' = Pending
    /\ pc' = IF DRY_RUN THEN "loadExistingDocs" ELSE "getAuthToken"
    /\ exitCode' = 0
    /\ authToken' = "null"
    /\ url' = 0
    /\ badDocCount' = 0
    /\ failedDocs' = 0
    /\ existingDocs' = [documents |-> <<>>]
    /\ existingDocsSet' = {}
    /\ profileDocs' = <<>>
    /\ apuDocs' = <<>>
    /\ apuLinkedDocs' = <<>>
    /\ ccrbAnnualReports' = <<>>
    /\ departureLetters' = <<>>
    /\ trialDecisions' = <<>>
    /\ ccrbClosingReports' = <<>>
    /\ newDocuments' = <<>>
    /\ i' = 0
    /\ addedDocs' = <<>>
    /\ requests' = <<>>
    /\ lastEvent' = "none"
    /\ pages' = <<>>
    /\ thrownIn' = "none"
    /\ UNCHANGED <<envVars, file, cloud>>

(***************************************************************************)
(* getAuthToken: the identity provider answers with a token, or with a     *)
(* body that has no access field, or the request or its parse throws.      *)
(***************************************************************************)
getAuthToken ==
    /\ pc = "getAuthToken"
    /\ \E answer \in {"token", "undefined", "throw"} :
          IF answer = "throw"
          THEN Throw /\ UNCHANGED <<authToken, checkVars>>
          ELSE /\ authToken' = answer
               /\ pc' = "checkDocuments"
               /\ url' = 1
               /\ badDocCount' = 0
               /\ UNCHANGED <<exitCode, failedDocs, thrownIn>>
    /\ UNCHANGED <<envVars, file, cloud, ledgerVars, sourceVars, uploadVars,
                   requests, lastEvent, prevRun, prevPending, pages>>

(***************************************************************************)
(* checkDocuments: one turn of the loop, up to its next await.             *)
(***************************************************************************)
\* The count without the test of doc.status.
BadDocsCountsAll(results) == Len(results)

BadDocs(results) == Cardinality({k \in 1..Len(results) : results[k] # "success"})

\* The log entry of a GET of the listing.
Page(outcome, results, next) ==
    [url |-> url, delayed |-> lastEvent = "delay", outcome |-> outcome,
     results |-> results, next |-> next]

\* The request for a page fails, or its body does not parse.
checkDocumentsThrow ==
    /\ pc = "checkDocuments"
    /\ url # 0
    /\ Throw
    /\ pages' = Append(pages, Page("throw", <<>>, 0))
    /\ lastEvent' = "GET"
    /\ UNCHANGED <<envVars, file, cloud, authToken, checkVars, ledgerVars,
                   sourceVars, uploadVars, requests, prevRun, prevPending>>

\* !response.ok
checkDocumentsError ==
    /\ pc = "checkDocuments"
    /\ url # 0
    /\ exitCode' = EXIT_CHECK_ERROR
    /\ failedDocs' = -1
    /\ pc' = "checked"
    /\ pages' = Append(pages, Page("error", <<>>, 0))
    /\ lastEvent' = "GET"
    /\ UNCHANGED <<envVars, file, cloud, authToken, url, badDocCount, ledgerVars,
                   sourceVars, uploadVars, requests, prevRun, prevPending, thrownIn>>

\* A page of the listing, without the delay(100) before the next one.
checkDocumentsPageNoDelay ==
    /\ pc = "checkDocuments"
    /\ url # 0
    /\ authToken = "token"
    /\ \E results \in PageResults, next \in {0, url + 1} :
          /\ next <= MaxPages
          /\ badDocCount' = badDocCount + BadDocs(results)
          /\ url' = next
          /\ pages' = Append(pages, Page("ok", results, next))
          /\ IF next # 0
             THEN pc' = "checkDocuments" /\ UNCHANGED failedDocs
             ELSE pc' = "checked" /\ failedDocs' = badDocCount'
    /\ lastEvent' = "GET"
    /\ UNCHANGED <<envVars, file, cloud, exitCode, authToken, ledgerVars,
                   sourceVars, uploadVars, requests, prevRun, prevPending, thrownIn>>

\* A page of the listing: DocumentCloud answers only a valid token.
checkDocumentsPage ==
    /\ pc = "checkDocuments"
    /\ url # 0
    /\ authToken = "token"
    /\ \E results \in PageResults, next \in {0, url + 1} :
          /\ next <= MaxPages
          /\ badDocCount' = badDocCount + BadDocs(results)
          /\ url' = next
          /\ pages' = Append(pages, Page("ok", results, next))
          /\ IF next # 0
             THEN pc' = "checkDelay" /\ UNCHANGED failedDocs
             ELSE pc' = "checked" /\ failedDocs' = badDocCount'
    /\ lastEvent' = "GET"
    /\ UNCHANGED <<envVars, file, cloud, exitCode, authToken, ledgerVars,
                   sourceVars, uploadVars, requests, prevRun, prevPending, thrownIn>>

\* await delay(100)
checkDocumentsDelay ==
    /\ pc = "checkDelay"
    /\ pc' = "checkDocuments"
    /\ lastEvent' = "delay"
    /\ UNCHANGED <<envVars, file, cloud, exitCode, authToken, checkVars,
                   ledgerVars, sourceVars, uploadVars, requests, prevRun, prevPending, pages, thrownIn>>

(***************************************************************************)
(* start(), lines 52-56: what start() does with checkDocuments' result.    *)
(***************************************************************************)
\* The assignment of line 54 made only when no exit code is set yet.
ExitCodeAfterCheckKeepingFirst(failed, code) ==
    IF failed # 0 /\ code = 0 THEN EXIT_UNPROCESSED ELSE code

ExitCodeAfterCheck(failed, code) ==
    IF failed # 0 THEN EXIT_UNPROCESSED ELSE code

startAfterCheck ==
    /\ pc = "checked"
    /\ exitCode' = ExitCodeAfterCheck(failedDocs, exitCode)
    /\ pc' = "loadExistingDocs"
    /\ UNCHANGED <<envVars, file, cloud, authToken, checkVars, ledgerVars,
                   sourceVars, uploadVars, requests, lastEvent, prevRun, prevPending, pages, thrownIn>>

(***************************************************************************)
(* loadExistingDocs and getExistingDocsSet, lines 58-59.                   *)
(***************************************************************************)
loadExistingDocs ==
    /\ pc = "loadExistingDocs"
    /\ existingDocs' = file
    /\ existingDocsSet' = getExistingDocsSet(file)
    /\ pc' = "getProfileDocs"
    \* failedDocs and checkDocuments' locals are dead from here on
    /\ url' = 0
    /\ badDocCount' = 0
    /\ failedDocs' = 0
    /\ pages' = <<>>
    /\ UNCHANGED <<envVars, file, cloud, exitCode, authToken, sourceVars,
                   uploadVars, requests, lastEvent, prevRun, prevPending, thrownIn>>

(***************************************************************************)
(* The source adapters, lines 61-75.  Each returns what its source serves  *)
(* after checkDocCount, or throws when the fetch or the parse fails.       *)
(***************************************************************************)
getProfileDocs ==
    /\ pc = "getProfileDocs"
    /\ \/ /\ profileDocs' = web.profile
          /\ exitCode' = checkDocCount(EXPECTED_PROFILE, profileDocs', exitCode)
          /\ pc' = "getApuDocs"
          /\ UNCHANGED thrownIn
       \/ Throw /\ UNCHANGED profileDocs
    /\ UNCHANGED <<envVars, file, cloud, authToken, checkVars, ledgerVars, apuDocs,
                   apuLinkedDocs, ccrbAnnualReports, departureLetters,
                   trialDecisions, ccrbClosingReports, uploadVars, requests,
                   lastEvent, prevRun, prevPending, pages>>

getApuDocs ==
    /\ pc = "getApuDocs"
    /\ \/ /\ apuDocs' = web.apuPage
          /\ exitCode' = checkDocCount(EXPECTED_APU, apuDocs', exitCode)
          /\ pc' = "getApuLinkedDocs"
          /\ UNCHANGED thrownIn
       \/ Throw /\ UNCHANGED apuDocs
    /\ UNCHANGED <<envVars, file, cloud, authToken, checkVars, ledgerVars,
                   profileDocs, apuLinkedDocs, ccrbAnnualReports, departureLetters,
                   trialDecisions, ccrbClosingReports, uploadVars, requests,
                   lastEvent, prevRun, prevPending, pages>>

\* The matches of one APU report: normalized to www1, then a Set.
ApuMatches(text) == SetOrder([k \in 1..Len(text) |-> NormalizeHost(text[k])], <<>>)

getApuLinkedDocs ==
    /\ pc = "getApuLinkedDocs"
    /\ \/ /\ apuLinkedDocs' =
                Concat([k \in 1..Len(apuDocs) |-> ApuMatches(web.apuText[apuDocs[k]])])
          /\ exitCode' = checkDocCount(EXPECTED_APU_LINKED, apuLinkedDocs', exitCode)
          /\ pc' = "getCCRBAnnualReports"
          /\ UNCHANGED thrownIn
       \* a report that cannot be fetched or that pdftk cannot read
       \/ apuDocs # <<>> /\ Throw /\ UNCHANGED apuLinkedDocs
    /\ UNCHANGED <<envVars, file, cloud, authToken, checkVars, ledgerVars,
                   profileDocs, apuDocs, ccrbAnnualReports, departureLetters,
                   trialDecisions, ccrbClosingReports, uploadVars, requests,
                   lastEvent, prevRun, prevPending, pages>>

getCCRBAnnualReports ==
    /\ pc = "getCCRBAnnualReports"
    /\ \/ /\ ccrbAnnualReports' = web.annualPage
          /\ exitCode' = checkDocCount(EXPECTED_CCRB_ANNUAL, ccrbAnnualReports', exitCode)
          /\ pc' = "getDepartureLetters"
          /\ UNCHANGED thrownIn
       \/ Throw /\ UNCHANGED ccrbAnnualReports
    /\ UNCHANGED <<envVars, file, cloud, authToken, checkVars, ledgerVars,
                   profileDocs, apuDocs, apuLinkedDocs, departureLetters,
                   trialDecisions, ccrbClosingReports, uploadVars, requests,
                   lastEvent, prevRun, prevPending, pages>>

getDepartureLetters ==
    /\ pc = "getDepartureLetters"
    /\ \/ /\ departureLetters' = web.departure
          /\ exitCode' = checkDocCount(EXPECTED_DEPARTURE, departureLetters', exitCode)
          /\ pc' = "getTrialDecisions"
          /\ UNCHANGED thrownIn
       \/ Throw /\ UNCHANGED departureLetters
    /\ UNCHANGED <<envVars, file, cloud, authToken, checkVars, ledgerVars,
                   profileDocs, apuDocs, apuLinkedDocs, ccrbAnnualReports,
                   trialDecisions, ccrbClosingReports, uploadVars, requests,
                   lastEvent, prevRun, prevPending, pages>>

getTrialDecisions ==
    /\ pc = "getTrialDecisions"
    /\ \/ /\ trialDecisions' = web.trial
          /\ exitCode' = checkDocCount(EXPECTED_TRIAL, trialDecisions', exitCode)
          /\ pc' = "getCcrbClosingReports"
          /\ UNCHANGED thrownIn
       \/ Throw /\ UNCHANGED trialDecisions
    /\ UNCHANGED <<envVars, file, cloud, authToken, checkVars, ledgerVars,
                   profileDocs, apuDocs, apuLinkedDocs, ccrbAnnualReports,
                   departureLetters, ccrbClosingReports, uploadVars, requests,
                   lastEvent, prevRun, prevPending, pages>>

getCcrbClosingReports ==
    /\ pc = "getCcrbClosingReports"
    /\ \/ /\ ccrbClosingReports' =
                [k \in 1..Len(web.closing) |->
                    <<NYC_GOV, CCRB_PDF_CLOSING>> \o web.closing[k]]
          /\ exitCode' = checkDocCount(EXPECTED_CLOSING, ccrbClosingReports', exitCode)
          /\ pc' = "processDocs"
          /\ UNCHANGED thrownIn
       \/ Throw /\ UNCHANGED ccrbClosingReports
    /\ UNCHANGED <<envVars, file, cloud, authToken, checkVars, ledgerVars,
                   profileDocs, apuDocs, apuLinkedDocs, ccrbAnnualReports,
                   departureLetters, trialDecisions, uploadVars, requests,
                   lastEvent, prevRun, prevPending, pages>>

(***************************************************************************)
(* start(), lines 77-88, processDocs, and uploadDocs up to its first       *)
(* await.                                                                  *)
(***************************************************************************)
\* start(): the concatenation of the sources, before the map.
RawDocs ==
    profileDocs \o apuDocs \o apuLinkedDocs \o ccrbAnnualReports
        \o departureLetters \o trialDecisions \o ccrbClosingReports \o EXTRA_DOCS

AllDocs == Canonical(RawDocs)

processDocs ==
    /\ pc = "processDocs"
    /\ LET r == processDocsLoop(AllDocs, existingDocsSet, <<>>) IN
          /\ newDocuments' = r.newDocuments
          /\ existingDocsSet' = r.existingDocs
          /\ pc' = IF 0 < NumChunks(r.newDocuments) THEN "uploadFetch" ELSE "uploadReturn"
    /\ i' = 0
    /\ addedDocs' = <<>>
    /\ UNCHANGED <<envVars, file, cloud, exitCode, authToken, checkVars,
                   existingDocs, sourceVars, requests, lastEvent, prevRun, prevPending, pages, thrownIn>>

(***************************************************************************)
(* uploadDocs: one turn of the loop, up to its next await.                 *)
(***************************************************************************)
RequestDocs == Chunk(newDocuments, i)

Request(outcome, data) ==
    [docs |-> RequestDocs, delayed |-> lastEvent = "delay", outcome |-> outcome,
     data |-> data]

\* await delay(100)
uploadDocsDelay ==
    /\ pc = "uploadDelay"
    /\ pc' = "uploadFetch"
    /\ lastEvent' = "delay"
    /\ UNCHANGED <<envVars, file, cloud, exitCode, authToken, checkVars,
                   ledgerVars, sourceVars, uploadVars, requests, prevRun, prevPending, pages, thrownIn>>

\* The request fails, or its body does not parse.
uploadDocsThrow ==
    /\ pc = "uploadFetch"
    /\ ~DRY_RUN
    /\ Throw
    /\ requests' = Append(requests, Request("throw", <<>>))
    /\ lastEvent' = "POST"
    /\ UNCHANGED <<envVars, file, cloud, authToken, checkVars, ledgerVars,
                   sourceVars, uploadVars, prevRun, prevPending, pages>>

\* !response.ok, with the return forgotten: the loop goes on to the next chunk.
uploadDocsErrorContinues ==
    /\ pc = "uploadFetch"
    /\ ~DRY_RUN
    /\ exitCode' = EXIT_UPLOAD_ERROR
    /\ i' = i + 1
    /\ pc' = IF i' < NumChunks(newDocuments) THEN "uploadDelay" ELSE "uploadReturn"
    /\ requests' = Append(requests, Request("error", <<>>))
    /\ lastEvent' = "POST"
    /\ UNCHANGED <<envVars, file, cloud, authToken, checkVars, ledgerVars,
                   sourceVars, newDocuments, addedDocs, prevRun, prevPending, pages, thrownIn>>

\* !response.ok
uploadDocsError ==
    /\ pc = "uploadFetch"
    /\ ~DRY_RUN
    /\ exitCode' = EXIT_UPLOAD_ERROR
    /\ pc' = "uploadReturn"
    /\ requests' = Append(requests, Request("error", <<>>))
    /\ lastEvent' = "POST"
    /\ UNCHANGED <<envVars, file, cloud, authToken, checkVars, ledgerVars,
                   sourceVars, uploadVars, prevRun, prevPending, pages, thrownIn>>

\* data.length !== requestDocs.length, keeping the items that did come back.
uploadDocsMismatchKeepsPartial ==
    /\ pc = "uploadFetch"
    /\ ~DRY_RUN
    /\ authToken = "token"
    /\ \E m \in MismatchLengths(Len(RequestDocs)) :
          LET data == SubSeq(Descriptors(RequestDocs), 1, m) IN
            /\ requests' = Append(requests, Request("ok", data))
            /\ cloud' = cloud \cup {[file_url |-> data[k].file_url,
                                      canonical_url |-> data[k].canonical_url] : k \in 1..m}
            /\ addedDocs' = addedDocs \o Added(SubSeq(RequestDocs, 1, m), data)
    /\ exitCode' = EXIT_LENGTH_MISMATCH
    /\ pc' = "uploadReturn"
    /\ lastEvent' = "POST"
    /\ UNCHANGED <<envVars, file, authToken, checkVars, ledgerVars, sourceVars,
                   newDocuments, i, prevRun, prevPending, pages, thrownIn>>

\* data.length !== requestDocs.length: DocumentCloud created only some.
uploadDocsMismatch ==
    /\ pc = "uploadFetch"
    /\ ~DRY_RUN
    /\ authToken = "token"
    /\ \E m \in MismatchLengths(Len(RequestDocs)) :
          LET data == SubSeq(Descriptors(RequestDocs), 1, m) IN
            /\ requests' = Append(requests, Request("ok", data))
            /\ cloud' = cloud \cup {[file_url |-> data[k].file_url,
                                      canonical_url |-> data[k].canonical_url] : k \in 1..m}
    /\ exitCode' = EXIT_LENGTH_MISMATCH
    /\ pc' = "uploadReturn"
    /\ lastEvent' = "POST"
    /\ UNCHANGED <<envVars, file, authToken, checkVars, ledgerVars, sourceVars,
                   uploadVars, prevRun, prevPending, pages, thrownIn>>

\* The chunk is accepted (or, in a dry run, not sent) and its records pushed.
uploadDocsChunk ==
    /\ pc = "uploadFetch"
    /\ DRY_RUN \/ authToken = "token"
    /\ LET data == IF DRY_RUN THEN <<>> ELSE Descriptors(RequestDocs) IN
          /\ addedDocs' = addedDocs \o Added(RequestDocs, data)
          /\ IF DRY_RUN
             THEN UNCHANGED <<requests, cloud, lastEvent>>
             ELSE /\ requests' = Append(requests, Request("ok", data))
                  /\ cloud' = cloud \cup
                        {[file_url |-> data[k].file_url,
                          canonical_url |-> data[k].canonical_url] : k \in 1..Len(data)}
                  /\ lastEvent' = "POST"
    /\ i' = i + 1
    /\ pc' = IF i' < NumChunks(newDocuments) THEN "uploadDelay" ELSE "uploadReturn"
    /\ UNCHANGED <<envVars, file, exitCode, authToken, checkVars, ledgerVars,
                   sourceVars, newDocuments, prevRun, prevPending, pages, thrownIn>>

(***************************************************************************)
(* start(), lines 88-92, and writeUpdatedDocs.                             *)
(***************************************************************************)
\* The write without line 89: the ledger as it was loaded.
writeUpdatedDocsWithoutNewDocs ==
    /\ pc = "uploadReturn"
    /\ file' = existingDocs
    /\ pc' = "done"
    /\ UNCHANGED <<envVars, cloud, exitCode, authToken, checkVars, ledgerVars,
                   sourceVars, uploadVars, requests, lastEvent, prevRun, prevPending, pages, thrownIn>>

\* The write with the new records put before the loaded ones.
writeUpdatedDocsNewFirst ==
    /\ pc = "uploadReturn"
    /\ existingDocs' = [existingDocs EXCEPT !.documents = addedDocs \o @]
    /\ file' = existingDocs'
    /\ pc' = "done"
    /\ UNCHANGED <<envVars, cloud, exitCode, authToken, checkVars, existingDocsSet,
                   sourceVars, uploadVars, requests, lastEvent, prevRun, prevPending, pages, thrownIn>>

\* The write of a record for every new document, uploaded or not.
writeUpdatedDocsAllNew ==
    /\ pc = "uploadReturn"
    /\ existingDocs' =
          [existingDocs EXCEPT !.documents =
              @ \o addedDocs
                \o [k \in 1..(Len(newDocuments) - Len(addedDocs)) |->
                      [source_url |-> newDocuments[Len(addedDocs) + k].file_url,
                       permanent_url |-> Undefined]]]
    /\ file' = existingDocs'
    /\ pc' = "done"
    /\ UNCHANGED <<envVars, cloud, exitCode, authToken, checkVars, existingDocsSet,
                   sourceVars, uploadVars, requests, lastEvent, prevRun, prevPending,
                   pages, thrownIn>>

writeUpdatedDocs ==
    /\ pc = "uploadReturn"
    /\ existingDocs' = [existingDocs EXCEPT !.documents = @ \o addedDocs]
    /\ file' = existingDocs'
    /\ pc' = "done"
    /\ UNCHANGED <<envVars, cloud, exitCode, authToken, checkVars, existingDocsSet,
                   sourceVars, uploadVars, requests, lastEvent, prevRun, prevPending, pages, thrownIn>>

Next ==
    \/ start
    \/ getAuthToken
    \/ checkDocumentsThrow
    \/ checkDocumentsError
    \/ checkDocumentsPage
    \/ checkDocumentsDelay
    \/ startAfterCheck
    \/ loadExistingDocs
    \/ getProfileDocs
    \/ getApuDocs
    \/ getApuLinkedDocs
    \/ getCCRBAnnualReports
    \/ getDepartureLetters
    \/ getTrialDecisions
    \/ getCcrbClosingReports
    \/ processDocs
    \/ uploadDocsDelay
    \/ uploadDocsThrow
    \/ uploadDocsError
    \/ uploadDocsMismatch
    \/ uploadDocsChunk
    \/ writeUpdatedDocs

Spec == Init /\ [][Next]_vars

SpecDryRun == InitDryRun /\ [][Next]_vars

(***************************************************************************)
(* Properties.                                                             *)
(***************************************************************************)
\* The request log entry of a chunk DocumentCloud accepted whole.
Accepted(r) == r.outcome = "ok" /\ Len(r.data) = Len(r.docs)

\* The records a sequence of accepted requests stands for.
ResultsOf(reqs) ==
    Concat([c \in 1..Len(reqs) |->
        [p \in 1..Len(reqs[c].docs) |->
            [source_url |-> reqs[c].docs[p].file_url,
             permanent_url |-> reqs[c].data[p].canonical_url]]])

\* uploadDocs has returned to start().
Returned == pc \in {"uploadReturn", "done"}

\* processDocs has run and start() has not yet appended to existingDocs.
Processed == pc \in {"uploadFetch", "uploadDelay", "uploadReturn"}

\* C1: a successful response whose item count differs from the chunk's ends
\* the upload: it is the last request of the run, uploadDocs has returned, and
\* what it returned is exactly the results of the chunks before it.
C1_MismatchAborts ==
    \A k \in 1..Len(requests) :
        (requests[k].outcome = "ok" /\ Len(requests[k].data) # Len(requests[k].docs))
            => /\ k = Len(requests)
               /\ Returned
               /\ \A j \in 1..(k - 1) : Accepted(requests[j])
               /\ addedDocs = ResultsOf(SubSeq(requests, 1, k - 1))

C1_Witness ==
    /\ pc = "uploadReturn"
    /\ Len(requests) = 2
    /\ requests[2].outcome = "ok"
    /\ Len(requests[2].data) = Len(requests[2].docs) - 1
    /\ Len(requests[2].data) > 0
    /\ NumChunks(newDocuments) = 3
    /\ Len(addedDocs) = DOCS_PER_REQUEST

\* C2: a response with a non-success status ends the upload: that request is
\* the last of the run (no retry, no later chunk), uploadDocs has returned, and
\* what it returned is exactly the results of the chunks before it.
C2_ErrorAborts ==
    \A k \in 1..Len(requests) :
        requests[k].outcome = "error"
            => /\ k = Len(requests)
               /\ Returned
               /\ \A j \in 1..(k - 1) : Accepted(requests[j])
               /\ addedDocs = ResultsOf(SubSeq(requests, 1, k - 1))

C2_Witness ==
    /\ pc = "uploadReturn"
    /\ Len(requests) = 2
    /\ requests[2].outcome = "error"
    /\ NumChunks(newDocuments) = 3
    /\ Len(addedDocs) = DOCS_PER_REQUEST

\* C3: every record uploadDocs holds or has returned is a document
\* DocumentCloud created: its source_url is the file_url of a document of an
\* accepted chunk and its permanent_url the canonical_url of the response item
\* at the same position.
C3_ReturnedExist ==
    \A j \in 1..Len(addedDocs) :
        /\ [file_url |-> addedDocs[j].source_url,
            canonical_url |-> addedDocs[j].permanent_url] \in cloud
        /\ \E c \in 1..Len(requests) :
              /\ Accepted(requests[c])
              /\ \E p \in 1..Len(requests[c].docs) :
                    /\ requests[c].docs[p].file_url = addedDocs[j].source_url
                    /\ requests[c].data[p].canonical_url = addedDocs[j].permanent_url

C3_Witness ==
    /\ pc = "uploadReturn"
    /\ Len(addedDocs) = 2 * DOCS_PER_REQUEST
    /\ Len(requests) = 3
    /\ ~Accepted(requests[3])

\* C4: chunk c of the upload holds the documents 25(c-1)+1 .. min(25c, N) of
\* the N new documents in order, a delay comes right before every chunk but
\* the first, and an upload that nothing failed made exactly ceil(N/25)
\* requests.
C4_Chunking ==
    LET N == Len(newDocuments) IN
    /\ \A c \in 1..Len(requests) :
          /\ requests[c].docs =
                [p \in 1..(Min(DOCS_PER_REQUEST * c, N) - DOCS_PER_REQUEST * (c - 1)) |->
                    newDocuments[DOCS_PER_REQUEST * (c - 1) + p]]
          /\ Len(requests[c].docs) > 0
          /\ requests[c].delayed = (c # 1)
    /\ (Returned /\ \A c \in 1..Len(requests) : Accepted(requests[c]))
          => /\ DOCS_PER_REQUEST * Len(requests) >= N
             /\ DOCS_PER_REQUEST * Len(requests) < N + DOCS_PER_REQUEST

C4_Witness ==
    /\ pc = "uploadReturn"
    /\ Len(newDocuments) = 57
    /\ Len(requests) = 3
    /\ \A c \in 1..3 : Accepted(requests[c])
    /\ Len(requests[1].docs) = 25
    /\ Len(requests[2].docs) = 25
    /\ Len(requests[3].docs) = 7

\* No new document and no request.
C4_WitnessNone ==
    /\ pc = "uploadReturn"
    /\ Len(newDocuments) = 0
    /\ requests = <<>>

\* C5: when a run has ended, documents.json has a record for every document
\* of every chunk DocumentCloud accepted in that run.
C5_AcceptedChunksSaved ==
    pc \in {"done", "crashed"}
        => \A c \in 1..Len(requests) :
              Accepted(requests[c])
                  => \A p \in 1..Len(requests[c].docs) :
                        \E k \in 1..Len(file.documents) :
                            file.documents[k].source_url = requests[c].docs[p].file_url

\* C6 as stated: a run that follows a run that wrote documents.json finds no
\* new document, sends no request and adds nothing.
C6_SecondRunAddsNothing ==
    (prevRun \in {"complete", "aborted"} /\ (Processed \/ pc = "done"))
        => newDocuments = <<>> /\ requests = <<>> /\ addedDocs = <<>>

\* C6, amended: a run that follows a run whose upload was not cut short finds
\* no new document, sends no request and adds nothing.
C6_RunAfterCompleteRunAddsNothing ==
    (prevRun = "complete" /\ (Processed \/ pc = "done"))
        => newDocuments = <<>> /\ requests = <<>> /\ addedDocs = <<>>

\* The run before uploaded three chunks.
C6_Witness ==
    /\ prevRun = "complete"
    /\ pc = "done"
    /\ Len(file.documents) >= 57
    /\ web.profile # <<>>

\* C7: no new document, and no document of a request, has a URL that is the
\* source_url or one of the alternate_urls of a record of the loaded ledger.
C7_Dedup ==
    Processed
        => \A e \in Range(existingDocs.documents) :
              \A d \in Range(newDocuments) \cup UNION {Range(requests[c].docs) : c \in 1..Len(requests)} :
                  /\ d.file_url # e.source_url
                  /\ "alternate_urls" \in DOMAIN e
                        => \A a \in 1..Len(e.alternate_urls) : d.file_url # e.alternate_urls[a]

\* Candidates equal to a source_url and to an alternate URL were processed.
C7_Witness ==
    /\ pc = "uploadReturn"
    /\ requests # <<>>
    /\ \E e \in Range(existingDocs.documents) :
          /\ "alternate_urls" \in DOMAIN e
          /\ \E a \in 1..Len(e.alternate_urls), k \in 1..Len(AllDocs) :
                AllDocs[k] = e.alternate_urls[a]
    /\ \E e \in Range(existingDocs.documents), k \in 1..Len(AllDocs) :
          AllDocs[k] = e.source_url /\ RawDocs[k] # AllDocs[k]

\* C8: a URL of DOCS_TO_SKIP is never a new document, never in a request,
\* never returned by uploadDocs and never in documents.json.
C8_SkipList ==
    /\ \A d \in Range(newDocuments) : d.file_url \notin DOCS_TO_SKIP
    /\ \A c \in 1..Len(requests) :
          \A d \in Range(requests[c].docs) : d.file_url \notin DOCS_TO_SKIP
    /\ \A r \in Range(addedDocs) \cup Range(file.documents) \cup Range(existingDocs.documents) :
          r.source_url \notin DOCS_TO_SKIP

\* Skip-listed candidates the ledger does not know (one written with a space,
\* one on the alias host, one from an adapter) were processed and a run ended.
C8_Witness ==
    /\ pc = "done"
    /\ addedDocs # <<>>
    /\ \A s \in DOCS_TO_SKIP :
          /\ \E k \in 1..Len(AllDocs) : AllDocs[k] = s
          /\ s \notin getExistingDocsSet(file)
    /\ \E k \in 1..Len(RawDocs) : RawDocs[k] \notin DOCS_TO_SKIP /\ AllDocs[k] \in DOCS_TO_SKIP

\* The ledger's uniqueness: no two records share a source_url, and no record's
\* source_url is an alternate URL of another record.
LedgerUnique(documents) ==
    \A a, b \in 1..Len(documents) :
        a # b =>
            /\ documents[a].source_url # documents[b].source_url
            /\ "alternate_urls" \in DOMAIN documents[b]
                  => \A k \in 1..Len(documents[b].alternate_urls) :
                        documents[a].source_url # documents[b].alternate_urls[k]

\* C9: documents.json, unique before the first run, is unique after every
\* run.
C9_LedgerUnique == LedgerUnique(file.documents)

\* A run that met the same new URL twice has written the ledger.
C9_Witness ==
    /\ pc = "done"
    /\ \E j, k \in 1..Len(AllDocs) :
          /\ j < k
          /\ AllDocs[j] = AllDocs[k]
          /\ \E n \in 1..Len(addedDocs) : addedDocs[n].source_url = AllDocs[j]

\* C10: after checkDocuments returned -1 the exit code is the one of a failed
\* check, not the one of unprocessed documents.
C10_CheckErrorExitCode ==
    (pc = "loadExistingDocs" /\ failedDocs = -1)
        => exitCode = EXIT_CHECK_ERROR /\ exitCode # EXIT_UNPROCESSED

\* The places of start() where an adapter is awaited, in order.
Adapters ==
    <<"getProfileDocs", "getApuDocs", "getApuLinkedDocs", "getCCRBAnnualReports",
      "getDepartureLetters", "getTrialDecisions", "getCcrbClosingReports">>

\* C11: whatever checkDocuments meets (no failure, failures, a non-success
\* status, an unreachable DocumentCloud), the run is not ended by it.
C11_ValidatorNeverBlocks == ~(pc = "crashed" /\ thrownIn = "checkDocuments")

\* C12: without a token (the identity provider's answer has none) the run
\* fails before any ingestion: no listing is requested, no creation request
\* is sent, and the run does not get as far as the upload or the write.
C12_NoTokenNoIngestion ==
    authToken = "undefined"
        => /\ pages = <<>>
           /\ requests = <<>>
           /\ pc \notin {"uploadFetch", "uploadDelay", "uploadReturn", "done"}

\* C13: a failure in an adapter or in the reading of an APU report does not
\* end the run.
C13_SourceFailuresAbsorbed == ~(pc = "crashed" /\ thrownIn \in Range(Adapters))

\* The adapters that have returned, and what they returned and were expected
\* to return at least.
Counts ==
    << [docs |-> profileDocs, expected |-> EXPECTED_PROFILE],
       [docs |-> apuDocs, expected |-> EXPECTED_APU],
       [docs |-> apuLinkedDocs, expected |-> EXPECTED_APU_LINKED],
       [docs |-> ccrbAnnualReports, expected |-> EXPECTED_CCRB_ANNUAL],
       [docs |-> departureLetters, expected |-> EXPECTED_DEPARTURE],
       [docs |-> trialDecisions, expected |-> EXPECTED_TRIAL],
       [docs |-> ccrbClosingReports, expected |-> EXPECTED_CLOSING] >>

HasReturned(k) ==
    \/ pc = "processDocs"
    \/ \E j \in (k + 1)..Len(Adapters) : pc = Adapters[j]

Degraded == \E k \in 1..Len(Adapters) : Len(Counts[k].docs) < Counts[k].expected

\* C14: once an adapter has returned fewer URLs than expected, the exit code
\* is 59 for the rest of the aggregation; the run goes on: every URL of every
\* adapter is then a new document unless the loaded ledger or the skip list
\* has it, and after an upload that nothing cut short documents.json has them.
C14_DegradedSignal ==
    /\ \A k \in 1..Len(Adapters) :
          (HasReturned(k) /\ Len(Counts[k].docs) < Counts[k].expected)
              => exitCode = EXIT_DOC_COUNT
    /\ (Processed /\ Degraded)
          => Range(AllDocs) \subseteq
                getExistingDocsSet(existingDocs) \cup DOCS_TO_SKIP
                    \cup {newDocuments[n].file_url : n \in 1..Len(newDocuments)}
    /\ (pc = "done" /\ Degraded /\ Len(addedDocs) = Len(newDocuments))
          => Range(AllDocs) \subseteq DOCS_TO_SKIP \cup getExistingDocsSet(file)

\* A run with short lists from several adapters has written their documents.
C14_Witness ==
    /\ pc = "done"
    /\ exitCode = EXIT_DOC_COUNT
    /\ Len(profileDocs) = 30
    /\ departureLetters # <<>>
    /\ \E a, b \in 1..Len(addedDocs) :
          /\ addedDocs[a].source_url = profileDocs[30]
          /\ addedDocs[b].source_url = ReplaceAllSpaces(departureLetters[1])

\* C15: no new document has a URL with a literal space or on the alias host,
\* and no two spellings of one document (space or %20, alias or canonical
\* host) are both taken: not two new documents, and not a new document and a
\* record of the loaded ledger.
C15_OneSpellingIngested ==
    Processed
        => /\ \A d \in Range(newDocuments) :
                /\ \A k \in 1..Len(d.file_url) : d.file_url[k] # " "
                /\ NormalizeHost(d.file_url) = d.file_url
           /\ \A a, b \in 1..Len(newDocuments) :
                a # b => NormalizeHost(newDocuments[a].file_url)
                            # NormalizeHost(newDocuments[b].file_url)
           /\ \A d \in Range(newDocuments) :
                NormalizeHost(d.file_url) \notin getExistingDocsSet(existingDocs)

\* C16 as stated: a dry run still validates: by the time it loads the ledger
\* it has requested the listing.
C16_DryRunValidates ==
    (DRY_RUN /\ pc = "getProfileDocs") => lastEvent = "GET"

\* C16, amended: a dry run sends nothing to DocumentCloud and asks for no
\* token: no listing request, no creation request, and no exit code of the
\* validator or the upload; it loads, aggregates, filters and chunks as any
\* run, every record it returns has the placeholder, it returns a record for
\* every new document, and it writes them.
C16_DryRun ==
    DRY_RUN
        => /\ pages = <<>> /\ requests = <<>>
           /\ lastEvent \in {"none", "delay"}
           /\ authToken = "null"
           /\ exitCode \in {0, EXIT_DOC_COUNT, EXIT_UNCAUGHT}
           /\ \A c \in cloud : c.canonical_url # DRY_RUN_PLACEHOLDER
           /\ \A j \in 1..Len(addedDocs) :
                /\ addedDocs[j].permanent_url = DRY_RUN_PLACEHOLDER
                /\ addedDocs[j].source_url = newDocuments[j].file_url
           /\ Len(addedDocs) = Min(i * DOCS_PER_REQUEST, Len(newDocuments))
           /\ Returned => Len(addedDocs) = Len(newDocuments)
           /\ pc = "done"
                => SubSeq(file.documents, Len(file.documents) - Len(addedDocs) + 1,
                          Len(file.documents)) = addedDocs

\* A dry run of three chunks has ended.
C16_Witness ==
    /\ DRY_RUN
    /\ pc = "done"
    /\ Len(addedDocs) = 57
    /\ lastEvent = "delay"
    /\ file.documents[Len(file.documents)].permanent_url = DRY_RUN_PLACEHOLDER

\* C17: documents.json changes only in the write that ends a run, and what is
\* written is the records that were loaded, in their order, followed by the
\* records uploadDocs returned.
C17_AppendOnly ==
    [][IF pc = "uploadReturn" /\ pc' = "done"
       THEN /\ existingDocs.documents = file.documents
            /\ file'.documents = file.documents \o addedDocs
       ELSE file' = file]_vars

\* A run that loaded records has written them with new ones after them.
C17_Witness ==
    /\ pc = "done"
    /\ addedDocs # <<>>
    /\ Len(file.documents) > Len(addedDocs)
    /\ "alternate_urls" \in DOMAIN file.documents[1]

\* The documents of the listing pages requested so far that are not processed.
Unprocessed ==
    {<<k, j>> \in (1..Len(pages)) \X (1..2) :
        j <= Len(pages[k].results) /\ pages[k].results[j] # "success"}

\* C18: the requests of checkDocuments follow the listing: the first page,
\* then the page each answer names as next, with a delay right before every
\* request but the first; an answer without a next page is the last, with no
\* delay after it, and the count then returned is the number of listed
\* documents whose status is not success.
C18_Pagination ==
    /\ \A k \in 1..Len(pages) :
          /\ pages[k].url = IF k = 1 THEN 1 ELSE pages[k - 1].next
          /\ pages[k].delayed = (k # 1)
          /\ k < Len(pages) => pages[k].outcome = "ok" /\ pages[k].next # 0
          /\ (pages[k].outcome = "ok" /\ pages[k].next = 0)
                => /\ k = Len(pages)
                   /\ pc \in {"checked", "loadExistingDocs"}
                   /\ lastEvent = "GET"
    /\ (pc = "checkDocuments" /\ pages # <<>>)
          => lastEvent = "delay" /\ url = pages[Len(pages)].next
    /\ pc = "checkDelay" => pages[Len(pages)].next # 0 /\ lastEvent = "GET"
    /\ (pc = "checked" /\ failedDocs # -1)
          => /\ pages[Len(pages)].outcome = "ok"
             /\ pages[Len(pages)].next = 0
             /\ failedDocs = Cardinality(Unprocessed)

\* Two pages, an unprocessed document on each.
C18_Witness ==
    /\ pc = "checked"
    /\ Len(pages) = 2
    /\ failedDocs = 2
    /\ BadDocs(pages[1].results) = 1
    /\ pages[2].delayed

\* C19 as stated: every request to DocumentCloud but the first of the run is
\* sent right after a delay.
C19_AlwaysThrottled ==
    (pc \in {"checkDocuments", "uploadFetch"} /\ lastEvent # "none")
        => lastEvent = "delay"

\* C19, amended: a delay comes right before every listing request but the
\* first and right before every creation request but the first; the first
\* creation request follows the last listing request with no delay of the
\* program's own.
C19_Throttled ==
    /\ \A k \in 1..Len(pages) : pages[k].delayed = (k # 1)
    /\ \A c \in 1..Len(requests) : requests[c].delayed = (c # 1)
    /\ (pc = "checkDocuments" /\ pages # <<>>) => lastEvent = "delay"
    /\ pc = "uploadFetch" => lastEvent = IF i = 0 THEN "GET" ELSE "delay"

\* Three chunks were sent after the listing.
C19_Witness ==
    /\ pc = "uploadReturn"
    /\ Len(requests) = 3
    /\ ~requests[1].delayed
    /\ requests[2].delayed /\ requests[3].delayed

\* C20: what uploadDocs holds, and so what it returns, is a prefix of its
\* input in input order, and its length is the input's or a smaller multiple
\* of DOCS_PER_REQUEST.
C20_ReturnsPrefix ==
    /\ Len(addedDocs) <= Len(newDocuments)
    /\ \A j \in 1..Len(addedDocs) : addedDocs[j].source_url = newDocuments[j].file_url
    /\ \/ Len(addedDocs) = Len(newDocuments)
       \/ Len(addedDocs) % DOCS_PER_REQUEST = 0

\* uploadDocs returns two chunks of three.
C20_Witness ==
    /\ pc = "uploadReturn"
    /\ Len(newDocuments) = 57
    /\ Len(addedDocs) = 2 * DOCS_PER_REQUEST
    /\ requests[3].outcome = "error"

\* The last request of the run, if it failed: 0 for none or an accepted one.
UploadSignal ==
    IF requests = <<>> THEN 0
    ELSE LET r == requests[Len(requests)] IN
         IF r.outcome = "error" THEN EXIT_UPLOAD_ERROR
         ELSE IF r.outcome = "ok" /\ Len(r.data) # Len(r.docs) THEN EXIT_LENGTH_MISMATCH
         ELSE 0

\* The signal a step raises, as its code: 0 for a step that raises none.
StepSignal ==
    IF pc = "checkDocuments" /\ pc' = "checked" /\ failedDocs' = -1
    THEN EXIT_CHECK_ERROR
    ELSE IF pc = "checked" /\ failedDocs # 0
    THEN EXIT_UNPROCESSED
    ELSE IF \E k \in 1..Len(Adapters) :
                pc = Adapters[k] /\ Len(Counts'[k].docs) < Counts'[k].expected
    THEN EXIT_DOC_COUNT
    ELSE IF pc = "uploadFetch" /\ Len(requests') > Len(requests)
    THEN UploadSignal'
    ELSE 0

\* C21: the exit code is 0 when a run starts; a step that raises a signal
\* leaves that signal's code whatever the code was, and a step that raises
\* none leaves the code as it was (steps in which an exception ends the run
\* apart).  So when start() has returned the code is that of the last signal:
\* 60 or 61 if the upload was cut short, otherwise 59 if an adapter was short,
\* otherwise 58 or 0 as the validator left it.
C21_ExitStatus ==
    /\ [][IF pc \in {"idle", "done", "crashed"}
          THEN exitCode' = 0
          ELSE pc' # "crashed"
                  => exitCode' = IF StepSignal # 0 THEN StepSignal ELSE exitCode]_vars
    /\ [](pc = "done"
            => exitCode = IF UploadSignal # 0 THEN UploadSignal
                          ELSE IF Degraded THEN EXIT_DOC_COUNT
                          ELSE IF exitCode = EXIT_UNPROCESSED THEN EXIT_UNPROCESSED
                          ELSE 0)

\* A run that raised 59 and then 60 has ended.
C21_Witness ==
    /\ pc = "done"
    /\ Degraded
    /\ UploadSignal = EXIT_UPLOAD_ERROR
    /\ exitCode = EXIT_UPLOAD_ERROR
    /\ Len(requests) = 2

\* A run that raised no signal has ended.
C21_WitnessNone ==
    /\ pc = "done"
    /\ ~Degraded
    /\ UploadSignal = 0
    /\ exitCode = 0
    /\ addedDocs # <<>>

\* The URLs of the new documents of this run.
NewUrls == {newDocuments[j].file_url : j \in 1..Len(newDocuments)}

\* C22: a new document of the chunk that failed or of a later chunk has no
\* record in documents.json when the run has ended, although its URL is in
\* the set processDocs keeps in memory; the next run finds each of them new
\* again, and when a run's upload was not cut short documents.json has a
\* record for each of them.
C22_PendingRedone ==
    /\ pc \in {"uploadReturn", "done", "crashed"}
          => \A u \in Pending :
                /\ u \notin getExistingDocsSet(file)
                /\ \A k \in 1..Len(file.documents) : file.documents[k].source_url # u
                /\ u \in existingDocsSet
    /\ (Processed \/ pc = "done") => prevPending \subseteq NewUrls
    /\ (pc = "done" /\ Len(addedDocs) = Len(newDocuments))
          => \A u \in prevPending :
                \E k \in 1..Len(file.documents) : file.documents[k].source_url = u

\* The run before was cut short in its second chunk; this one uploaded what
\* was left and has written it.
C22_Witness ==
    /\ prevRun = "aborted"
    /\ Cardinality(prevPending) > DOCS_PER_REQUEST
    /\ pc = "done"
    /\ Len(addedDocs) = Len(newDocuments)
    /\ Len(addedDocs) = Cardinality(prevPending)
    /\ Len(file.documents) > Len(addedDocs)

=============================================================================
